---- MODULE Spec2Model ----
(***************************************************************************)
(* Folder-watch ingestion daemon of LabelOps: app/file_watcher.py          *)
(* (WatchService, _RecentPaths, _wait_for_stable) and app/daemon.py        *)
(* (DaemonRunner, _archive_file, _move_to_failures).                       *)
(*                                                                         *)
(* Time is counted in tenths of a second: STABLE_DELAY 0.4 s is 4,         *)
(* STABLE_TIMEOUT 10.0 s is 100, RECENT_TTL_SECONDS 300.0 s is 3000.       *)
(* A file name is the sequence of its characters.                          *)
(***************************************************************************)
EXTENDS Integers, Sequences, FiniteSets, TLC

(* ------------------------------ bounds --------------------------------- *)
MaxNotifs == 2
MaxEnv == 2
MaxStarts == 2
MaxHandlers == 2
MaxTime == 104
MaxEntries == 2

(* -------------------------- program constants -------------------------- *)
STABLE_CHECKS == 3
STABLE_DELAY == 4
STABLE_TIMEOUT == 100
RECENT_TTL_SECONDS == 3000
RECENT_MAX == 500
TicksPerSecond == 10
NoSize == -1
JOIN_TIMEOUT == 100

(* ------------------------------ helpers -------------------------------- *)
Range(f) == {f[x] : x \in DOMAIN f}

Remove(f, k) == [x \in (DOMAIN f) \ {k} |-> f[x]]

Put(f, k, v) == [x \in (DOMAIN f) \cup {k} |-> IF x = k THEN v ELSE f[x]]

Count(s, e) == Cardinality({i \in DOMAIN s : s[i] = e})

IsPrefix(s, t) == Len(s) <= Len(t) /\ SubSeq(t, 1, Len(s)) = s

EndsWith(s, t) == Len(t) <= Len(s) /\ SubSeq(s, Len(s) - Len(t) + 1, Len(s)) = t

(* str.lower() on the characters the model's names use *)
LowerChar(c) == CASE c = "T" -> "t" [] c = "X" -> "x" [] c = "M" -> "m" [] c = "P" -> "p" [] OTHER -> c

Lower(s) == [i \in DOMAIN s |-> LowerChar(s[i])]

(* ------------------------------ names ---------------------------------- *)
ExtTxt == <<".", "t", "x", "t">>
ExtTmp == <<".", "t", "m", "p">>
ExtPart == <<".", "p", "a", "r", "t">>
ExtError == <<".", "e", "r", "r", "o", "r", ".", "t", "x", "t">>

NameX == <<"x">> \o ExtTxt
NameY == <<"y">> \o ExtTxt

(* pathlib: the suffix starts at the last dot, unless the name starts there *)
DotAt(name) == {i \in DOMAIN name : name[i] = "." /\ i > 1}

LastDot(name) == CHOOSE i \in DotAt(name) : \A j \in DotAt(name) : j <= i

Stem(name) == IF DotAt(name) = {} THEN name ELSE SubSeq(name, 1, LastDot(name) - 1)

Suffix(name) == IF DotAt(name) = {} THEN <<>> ELSE SubSeq(name, LastDot(name), Len(name))

(* time.strftime("%Y%m%d_%H%M%S"): the wall clock at one-second resolution *)
Timestamp(t) == <<ToString(t \div TicksPerSecond)>>

(* f"{src.stem}_{timestamp}{src.suffix}" *)
StampedName(name, t) == Stem(name) \o <<"_">> \o Timestamp(t) \o Suffix(name)

(* Path(failure_path).with_suffix(".error.txt") *)
ErrorName(name) == Stem(name) \o ExtError

(* ------------------------- configured clients -------------------------- *)
DirA == <<"A">>
DirB == <<"B">>

ClientWatches ==
    << [client_id |-> "c1", in_txt |-> DirA, archive |-> "arcA"],
       [client_id |-> "c2", in_txt |-> DirB, archive |-> "arcB"] >>

(* os.name where the daemon is deployed: its directories are D:\LabelOps\... *)
Platforms == {"nt"}

ClientIds == {ClientWatches[i].client_id : i \in DOMAIN ClientWatches}

ArchiveDirs == {ClientWatches[i].archive : i \in DOMAIN ClientWatches}

PathA == [dir |-> DirA, name |-> NameX]
PathB == [dir |-> DirB, name |-> NameY]

Paths == {PathA, PathB}

(* a path that lies under no configured in_txt directory *)
DirOther == <<"Z">>

PathOther == [dir |-> DirOther, name |-> NameX]

OtherPaths == {PathOther}

(* a path in a sub-folder of the first client's in_txt (recursive watching),
   with the file name of PathA *)
PathSub == [dir |-> DirA \o <<"s">>, name |-> NameX]

SubPaths == {PathSub}

AllPaths == Paths \cup OtherPaths \cup SubPaths

(* Names of files that are not batches: temporary and partial files, editor
   backups, other types *)
RejectedNames ==
    { <<"o", "r", "d", "e", "r", "2">> \o ExtTmp,
      <<"x">> \o ExtPart,
      <<"x", ".", "T", "M", "P">>,
      NameX \o ExtTmp,
      <<"~">> \o NameX,
      NameX \o <<"~">>,
      <<"x", ".", "c", "s", "v">> }

RejectedPaths == {[dir |-> DirA, name |-> n] : n \in RejectedNames}

(* Paths the callers of a recent-path cache ask it about *)
CacheKeys == Paths \cup {[dir |-> DirA, name |-> NameY], [dir |-> DirB, name |-> NameX]}

(* Names an outside writer may put into an archive directory *)
ArchiveNames == {NameX, NameY}

(* --------------------- file_watcher: pure functions -------------------- *)
(* a filter without the test for "~" *)
IsValidTxtNoTilde(path) ==
    LET lower == Lower(path.name)
    IN  /\ ~ (EndsWith(lower, ExtTmp) \/ EndsWith(lower, ExtPart))
        /\ EndsWith(lower, ExtTxt)

(* _is_valid_txt *)
IsValidTxt(path) ==
    LET lower == Lower(path.name)
    IN  /\ ~ (EndsWith(lower, ExtTmp) \/ EndsWith(lower, ExtPart))
        /\ ~ (EndsWith(lower, <<"~">>) \/ IsPrefix(<<"~">>, lower))
        /\ EndsWith(lower, ExtTxt)

(* a prune that, over capacity, drops the newest entries *)
PruneNewest(items, t, ttl, max_entries) ==
    LET kept == SelectSeq(items, LAMBDA e : ~ (t - e.ts > ttl))
    IN  IF Len(kept) > max_entries THEN SubSeq(kept, 1, max_entries) ELSE kept

(* _RecentPaths._prune on the ordered items <<[path, ts], ...>> *)
Prune(items, t, ttl, max_entries) ==
    LET kept == SelectSeq(items, LAMBDA e : ~ (t - e.ts > ttl))
    IN  IF Len(kept) > max_entries
        THEN SubSeq(kept, Len(kept) - max_entries + 1, Len(kept))
        ELSE kept

(* _RecentPaths.seen: the items after the prune, and the membership *)
SeenItems(items, t) == Prune(items, t, RECENT_TTL_SECONDS, RECENT_MAX)

Seen(items, path, t) == \E i \in DOMAIN SeenItems(items, t) : SeenItems(items, t)[i].path = path

(* _RecentPaths.add of an instance with the given ttl_seconds and max_entries:
   set the timestamp, move to the end, prune *)
CacheAddItems(items, path, t, ttl, max_entries) ==
    Prune(SelectSeq(items, LAMBDA e : e.path # path) \o <<[path |-> path, ts |-> t]>>,
          t, ttl, max_entries)

(* _RecentPaths.add of the cache of a WatchService *)
AddItems(items, path, t) == CacheAddItems(items, path, t, RECENT_TTL_SECONDS, RECENT_MAX)

(* a probe that never gets the file *)
CanOpenExclusiveDenied(os, file) == FALSE

(* _can_open_exclusive: on nt the open or the byte lock fails while a writer
   holds the file locked; elsewhere open(path, "rb") succeeds on any file *)
CanOpenExclusive(os, file) == IF os = "nt" THEN file.wstate # "locked" ELSE TRUE

(* ------------------------ daemon: pure functions ----------------------- *)
(* str(Path(path)): pathlib drops "." components *)
Resolved(path) == [dir |-> SelectSeq(path.dir, LAMBDA c : c # "."), name |-> path.name]

(* a routing that hands every path to the first configured watch *)
ResolveClientWatchFirst(path) == 1

(* _resolve_client_watch: index of the first watch whose in_txt is a prefix, 0 for None *)
Matching(path) == {i \in DOMAIN ClientWatches : IsPrefix(ClientWatches[i].in_txt, path.dir)}

ResolveClientWatch(path) ==
    IF Matching(path) = {} THEN 0
    ELSE CHOOSE i \in Matching(path) : \A j \in Matching(path) : i <= j

(* _find_archive_path followed by os.path.exists, against the archive directories arch *)
ArchivePathExists(path, arch) ==
    /\ ResolveClientWatch(path) # 0
    /\ path.name \in DOMAIN arch[ClientWatches[ResolveClientWatch(path)].archive]

(* _already_processed without its look into the ledger *)
AlreadyProcessedNoLedger(path, ledger, arch) == ArchivePathExists(path, arch)

(* _already_processed without its look into the archive directory *)
AlreadyProcessedNoArchive(path, ledger, arch) == path \in ledger

(* _already_processed: the result, and the ledger it leaves *)
AlreadyProcessed(path, ledger, arch) == path \in ledger \/ ArchivePathExists(path, arch)

(* an _already_processed that does not record what it finds in the archive *)
LedgerAfterCheckForgets(path, ledger, arch) == ledger

LedgerAfterCheck(path, ledger, arch) ==
    IF path \notin ledger /\ ArchivePathExists(path, arch) THEN ledger \cup {path} ELSE ledger

(* _archive_file / _move_to_failures: the destination name in directory dir at time t *)
Destination(dir, name, t) == IF name \in DOMAIN dir THEN StampedName(name, t) ELSE name

(* a queue that hands out its newest item *)
QueueGetNewest(q) == q[Len(q)]

(* queue.Queue.get: the item handed out *)
QueueGet(q) == Head(q)

QueueRest(q) == Tail(q)

(* ------------------------------- state --------------------------------- *)
VARIABLES
    now,            \* the clock, in tenths of a second
    os_name,        \* os.name of the build: "nt" or "posix"
    inbound,        \* files under the inbound directories: path -> [content, size, wstate, closed_at]
    archive,        \* archive directory -> (file name -> content)
    failures,       \* client id -> (file name -> content) of its FAILURES directory
    mpc,            \* position of the main thread (_run_daemon)
    nStarts,        \* calls of DaemonRunner.start so far; the latest is self._watcher / self._worker_thread
    nStops,         \* calls of DaemonRunner.stop so far
    joinStart,      \* the time at which stop() began to join the worker
    stop_event,     \* DaemonRunner._stop_event
    queue,          \* DaemonRunner._queue
    unfinished,     \* queue.Queue.unfinished_tasks
    processed,      \* DaemonRunner._processed, the ledger
    workers,        \* worker thread of each start(): [pc, path, failure]
    observers,      \* observer of each WatchService: "none", "running" or "stopped"
    recent,         \* _RecentPaths._items of each WatchService
    handlers,       \* notification handlers: [pc, path, gen, start, next, last_size, hits, term, obs]
    nNotifs,        \* notifications delivered so far
    nEnv,           \* how often the environment has acted on the file system or the clock
    pipelineCalls,  \* history: pipeline.run_pipeline invocations per path
    callbacks,      \* history: admission callback invocations, [path, at, ok]
    enqOrder,       \* history: the paths in the order of their queue.put
    procOrder,      \* history: the paths in the order the workers took them
    outcome         \* history: path -> the terminal moves made for it

fsVars == <<now, os_name, inbound, archive, failures>>
mainVars == <<mpc, nStarts, nStops, joinStart, stop_event>>
daemonVars == <<queue, unfinished, processed, workers>>
watchVars == <<observers, recent, handlers>>
envVars == <<nNotifs, nEnv>>
histVars == <<pipelineCalls, callbacks, enqOrder, procOrder, outcome>>
vars == <<fsVars, mainVars, daemonVars, watchVars, envVars, histVars>>

Gens == 1 .. MaxStarts
HandlerIds == 1 .. MaxHandlers

IdleHandler ==
    [pc |-> "idle", path |-> PathA, gen |-> 1, start |-> 0, next |-> 0,
     last_size |-> NoSize, hits |-> 0, term |-> FALSE, obs |-> <<>>]

NoContent == <<"none", 0>>

NoWorker ==
    [pc |-> "off", path |-> PathA, pres |-> "none", moved |-> NoContent,
     dest |-> <<>>, failure |-> <<>>]

(* Contents an archive may hold when the daemon starts (left by earlier runs) *)
InitialArchives ==
    { [a \in ArchiveDirs |-> IF a = "arcA" THEN d ELSE <<>>] :
        d \in { <<>>,
                Put(<<>>, NameX, <<"old", 1>>),
                Put(<<>>, StampedName(NameX, 0), <<"old", 2>>) } }

(* the state after construction, on one of the given platforms *)
InitOn(platforms) ==
    /\ now = 0
    /\ os_name \in platforms
    /\ inbound = <<>>
    /\ archive \in InitialArchives
    /\ failures = [c \in ClientIds |-> <<>>]
    /\ mpc = "idle"
    /\ nStarts = 0
    /\ nStops = 0
    /\ joinStart = 0
    /\ stop_event = FALSE
    /\ queue = <<>>
    /\ unfinished = 0
    /\ processed = {}
    /\ workers = [g \in Gens |-> NoWorker]
    /\ observers = [g \in Gens |-> "none"]
    /\ recent = [g \in Gens |-> <<>>]
    /\ handlers = [h \in HandlerIds |-> IdleHandler]
    /\ nNotifs = 0
    /\ nEnv = 0
    /\ pipelineCalls = [p \in AllPaths |-> 0]
    /\ callbacks = <<>>
    /\ enqOrder = <<>>
    /\ procOrder = <<>>
    /\ outcome = [p \in AllPaths |-> {}]

Init == InitOn(Platforms)

(* ---------------------------- environment ------------------------------ *)
(* time passes: more than every timeout and the cache's time to live *)
LongTick ==
    /\ nEnv < MaxEnv
    /\ now' = now + RECENT_TTL_SECONDS + 1
    /\ nEnv' = nEnv + 1
    /\ UNCHANGED <<os_name, inbound, archive, failures, mainVars, daemonVars, watchVars,
                   nNotifs, histVars>>

(* a producer puts a file into an inbound directory; its writer is in state ws:
   "closed" (complete, renamed into place), "open" (still writing) or "locked"
   (still writing, holding the file exclusively) *)
DropFileAs(states) ==
    /\ nEnv < MaxEnv
    /\ \E p \in Paths \ DOMAIN inbound, ws \in states :
          inbound' = Put(inbound, p, [content |-> <<"file", nEnv + 1>>, size |-> 1, wstate |-> ws, closed_at |-> now])
    /\ nEnv' = nEnv + 1
    /\ UNCHANGED <<now, os_name, archive, failures, mainVars, daemonVars, watchVars, nNotifs, histVars>>

DropFile == DropFileAs({"closed"})

(* somebody removes or renames away a file of an inbound directory *)
Vanish ==
    /\ nEnv < MaxEnv
    /\ \E p \in DOMAIN inbound : inbound' = Remove(inbound, p)
    /\ nEnv' = nEnv + 1
    /\ UNCHANGED <<now, os_name, archive, failures, mainVars, daemonVars, watchVars, nNotifs, histVars>>

(* somebody else (an operator, another tool) puts a file into an archive directory *)
ExternalArchive ==
    /\ nEnv < MaxEnv
    /\ \E a \in ArchiveDirs, n \in ArchiveNames :
          /\ n \notin DOMAIN archive[a]
          /\ archive' = [archive EXCEPT ![a] = Put(@, n, <<"ext", nEnv + 1>>)]
    /\ nEnv' = nEnv + 1
    /\ UNCHANGED <<now, os_name, inbound, failures, mainVars, daemonVars, watchVars, nNotifs, histVars>>

(* --------------------------- DaemonRunner.start ------------------------ *)
DoStart ==
    /\ nStarts' = nStarts + 1
    /\ observers' = [observers EXCEPT ![nStarts + 1] = "running"]
    /\ recent' = [recent EXCEPT ![nStarts + 1] = <<>>]
    /\ workers' = [workers EXCEPT ![nStarts + 1] = [NoWorker EXCEPT !.pc = "loop"]]
    /\ UNCHANGED <<fsVars, mpc, nStops, joinStart, stop_event, queue, unfinished, processed,
                   handlers, envVars, histVars>>

(* _run_daemon: daemon.start(), once *)
Start ==
    /\ mpc = "idle"
    /\ nStarts = 0
    /\ DoStart

(* start() called again on the same DaemonRunner *)
StartAgain ==
    /\ mpc = "idle"
    /\ nStarts >= 1
    /\ nStarts < MaxStarts
    /\ DoStart

(* --------------------------- DaemonRunner.stop ------------------------- *)
(* self._stop_event.set() *)
StopSet ==
    /\ mpc = "idle"
    /\ nStarts >= 1
    /\ nStops = 0
    /\ stop_event' = TRUE
    /\ nStops' = nStops + 1
    /\ mpc' = "stop_watcher"
    /\ UNCHANGED <<fsVars, nStarts, joinStart, daemonVars, watchVars, envVars, histVars>>

(* self._watcher.stop() *)
StopWatcher ==
    /\ mpc = "stop_watcher"
    /\ observers' = [observers EXCEPT ![nStarts] = "stopped"]
    /\ joinStart' = now
    /\ mpc' = "join_worker"
    /\ UNCHANGED <<fsVars, nStarts, nStops, stop_event, daemonVars, recent, handlers, envVars, histVars>>

(* a join of the worker without a timeout *)
JoinWorkerForever ==
    /\ mpc = "join_worker"
    /\ workers[nStarts].pc \in {"exit", "dead"}
    /\ mpc' = "join_watcher"
    /\ UNCHANGED <<fsVars, nStarts, nStops, joinStart, stop_event, daemonVars, watchVars, envVars, histVars>>

(* self._worker_thread.join(timeout=10) *)
JoinWorker ==
    /\ mpc = "join_worker"
    /\ \/ workers[nStarts].pc \in {"exit", "dead"}
       \/ now - joinStart >= JOIN_TIMEOUT
    /\ mpc' = "join_watcher"
    /\ UNCHANGED <<fsVars, nStarts, nStops, joinStart, stop_event, daemonVars, watchVars, envVars, histVars>>

(* a stop() that returns without waiting for the handlers of the observer *)
JoinWatcherNoWait ==
    /\ mpc = "join_watcher"
    /\ mpc' = "idle"
    /\ UNCHANGED <<fsVars, nStarts, nStops, joinStart, stop_event, daemonVars, watchVars, envVars, histVars>>

(* self._watcher.join() *)
JoinWatcher ==
    /\ mpc = "join_watcher"
    /\ \A h \in HandlerIds : handlers[h].gen = nStarts => handlers[h].pc = "idle"
    /\ mpc' = "idle"
    /\ UNCHANGED <<fsVars, nStarts, nStops, joinStart, stop_event, daemonVars, watchVars, envVars, histVars>>

(* ---------------------- WatchService._handle_path ---------------------- *)
(* A notification for path p reaches the handler of a running observer:
   _is_valid_txt, then self._recent.seen(path) *)
Notify(h, p, g) ==
    /\ nNotifs < MaxNotifs
    /\ handlers[h].pc = "idle"
    /\ observers[g] = "running"
    /\ nNotifs' = nNotifs + 1
    /\ IF ~ IsValidTxt(p)
       THEN UNCHANGED <<recent, handlers>>
       ELSE /\ recent' = [recent EXCEPT ![g] = SeenItems(@, now)]
            /\ handlers' = [handlers EXCEPT ![h] =
                  IF Seen(recent[g], p, now)
                  THEN IdleHandler
                  ELSE [IdleHandler EXCEPT !.pc = "wait", !.path = p, !.gen = g,
                                           !.start = now, !.next = now]]
    /\ UNCHANGED <<fsVars, mainVars, daemonVars, observers, nEnv, histVars>>

(* a poll without the test of the timeout *)
PollResultNoTimeout(hr, t, os, files) ==
    IF hr.path \notin DOMAIN files THEN [r |-> "sleep", last_size |-> hr.last_size, hits |-> hr.hits]
    ELSE IF CanOpenExclusive(os, files[hr.path]) THEN [r |-> "true", last_size |-> hr.last_size, hits |-> hr.hits]
    ELSE IF hr.last_size = NoSize \/ files[hr.path].size # hr.last_size
         THEN [r |-> "sleep", last_size |-> files[hr.path].size, hits |-> 0]
    ELSE IF hr.hits + 1 >= STABLE_CHECKS THEN [r |-> "true", last_size |-> hr.last_size, hits |-> hr.hits + 1]
    ELSE [r |-> "sleep", last_size |-> hr.last_size, hits |-> hr.hits + 1]

(* a poll that goes on counting when the size has changed *)
PollResultNoReset(hr, t, os, files) ==
    IF ~ (t - hr.start < STABLE_TIMEOUT) THEN [r |-> "false", last_size |-> hr.last_size, hits |-> hr.hits]
    ELSE IF hr.path \notin DOMAIN files THEN [r |-> "sleep", last_size |-> hr.last_size, hits |-> hr.hits]
    ELSE IF CanOpenExclusive(os, files[hr.path]) THEN [r |-> "true", last_size |-> hr.last_size, hits |-> hr.hits]
    ELSE IF hr.last_size = NoSize
         THEN [r |-> "sleep", last_size |-> files[hr.path].size, hits |-> 0]
    ELSE IF hr.hits + 1 >= STABLE_CHECKS THEN [r |-> "true", last_size |-> files[hr.path].size, hits |-> hr.hits + 1]
    ELSE [r |-> "sleep", last_size |-> files[hr.path].size, hits |-> hr.hits + 1]

(* _wait_for_stable: the result of one poll of handler record hr:
   "true", "false", or "sleep" with the new last_size and stable_hits *)
PollResult(hr, t, os, files) ==
    IF ~ (t - hr.start < STABLE_TIMEOUT) THEN [r |-> "false", last_size |-> hr.last_size, hits |-> hr.hits]
    ELSE IF hr.path \notin DOMAIN files THEN [r |-> "sleep", last_size |-> hr.last_size, hits |-> hr.hits]
    ELSE IF CanOpenExclusive(os, files[hr.path]) THEN [r |-> "true", last_size |-> hr.last_size, hits |-> hr.hits]
    ELSE IF hr.last_size = NoSize \/ files[hr.path].size # hr.last_size
         THEN [r |-> "sleep", last_size |-> files[hr.path].size, hits |-> 0]
    ELSE IF hr.hits + 1 >= STABLE_CHECKS THEN [r |-> "true", last_size |-> hr.last_size, hits |-> hr.hits + 1]
    ELSE [r |-> "sleep", last_size |-> hr.last_size, hits |-> hr.hits + 1]

(* history: the sizes found by the latest STABLE_CHECKS polls that found the file *)
Observed(obs, path, files) ==
    IF path \notin DOMAIN files THEN obs
    ELSE IF Len(obs) < STABLE_CHECKS THEN Append(obs, files[path].size)
    ELSE Append(Tail(obs), files[path].size)

(* a handler that enters the path into the recent-path cache whatever the wait returns *)
PollCaching(h) ==
    /\ handlers[h].pc = "wait"
    /\ now >= handlers[h].next
    /\ LET res == PollResult(handlers[h], now, os_name, inbound)
       IN  /\ handlers' = [handlers EXCEPT ![h] =
                 CASE res.r = "true" -> [IdleHandler EXCEPT !.pc = "add", !.path = handlers[h].path,
                                              !.gen = handlers[h].gen, !.start = handlers[h].start]
                   [] res.r = "false" -> IdleHandler
                   [] OTHER -> [@ EXCEPT !.next = now + STABLE_DELAY,
                                         !.last_size = res.last_size, !.hits = res.hits,
                                         !.obs = Observed(@, handlers[h].path, inbound)]]
           /\ recent' = IF res.r = "false"
                        THEN [recent EXCEPT ![handlers[h].gen] = AddItems(@, handlers[h].path, now)]
                        ELSE recent
    /\ UNCHANGED <<fsVars, mainVars, daemonVars, observers, envVars, histVars>>

(* one iteration of the loop of _wait_for_stable, after its sleep *)
Poll(h) ==
    /\ handlers[h].pc = "wait"
    /\ now >= handlers[h].next
    /\ LET res == PollResult(handlers[h], now, os_name, inbound)
       IN  handlers' = [handlers EXCEPT ![h] =
              CASE res.r = "true" -> [IdleHandler EXCEPT !.pc = "add", !.path = handlers[h].path,
                                           !.gen = handlers[h].gen, !.start = handlers[h].start]
                [] res.r = "false" -> IdleHandler
                [] OTHER -> [@ EXCEPT !.next = now + STABLE_DELAY,
                                      !.last_size = res.last_size, !.hits = res.hits,
                                      !.obs = Observed(@, handlers[h].path, inbound)]]
    /\ UNCHANGED <<fsVars, mainVars, daemonVars, observers, recent, envVars, histVars>>

(* a handler that goes on to the callback without self._recent.add(path) *)
RecentAddSkipped(h) ==
    /\ handlers[h].pc = "add"
    /\ handlers' = [handlers EXCEPT ![h].pc = "callback"]
    /\ UNCHANGED <<fsVars, mainVars, daemonVars, observers, recent, envVars, histVars>>

(* self._recent.add(path) *)
RecentAdd(h) ==
    /\ handlers[h].pc = "add"
    /\ recent' = [recent EXCEPT ![handlers[h].gen] = AddItems(@, handlers[h].path, now)]
    /\ handlers' = [handlers EXCEPT ![h].pc = "callback"]
    /\ UNCHANGED <<fsVars, mainVars, daemonVars, observers, envVars, histVars>>

(* self._on_file(path): _enqueue_path up to the result of _already_processed *)
EnqueueCheck(h) ==
    /\ handlers[h].pc = "callback"
    /\ LET path == Resolved(handlers[h].path)
       IN  /\ processed' = LedgerAfterCheck(path, processed, archive)
           /\ handlers' = [handlers EXCEPT ![h] =
                  IF AlreadyProcessed(path, processed, archive)
                  THEN IdleHandler
                  ELSE [@ EXCEPT !.pc = "put", !.term = outcome[path] # {}]]
           /\ callbacks' = Append(callbacks, [path |-> handlers[h].path, at |-> handlers[h].start,
                                               ok |-> TRUE])
    /\ UNCHANGED <<fsVars, mainVars, queue, unfinished, workers, observers, recent, envVars,
                   pipelineCalls, enqOrder, procOrder, outcome>>

(* an exception of the callback that escapes _handle_path into the observer's thread *)
CallbackRaisesUncaught(h) ==
    /\ handlers[h].pc = "callback"
    /\ callbacks' = Append(callbacks, [path |-> handlers[h].path, at |-> handlers[h].start,
                                        ok |-> FALSE])
    /\ handlers' = [handlers EXCEPT ![h] = IdleHandler]
    /\ observers' = [observers EXCEPT ![handlers[h].gen] = "stopped"]
    /\ UNCHANGED <<fsVars, mainVars, daemonVars, recent, envVars,
                   pipelineCalls, enqOrder, procOrder, outcome>>

(* self._on_file(path) raises: except Exception logs it and _handle_path returns *)
CallbackRaises(h) ==
    /\ handlers[h].pc = "callback"
    /\ callbacks' = Append(callbacks, [path |-> handlers[h].path, at |-> handlers[h].start,
                                        ok |-> FALSE])
    /\ handlers' = [handlers EXCEPT ![h] = IdleHandler]
    /\ UNCHANGED <<fsVars, mainVars, daemonVars, observers, recent, envVars,
                   pipelineCalls, enqOrder, procOrder, outcome>>

(* _enqueue_path: self._queue.put(resolved) *)
EnqueuePut(h) ==
    /\ handlers[h].pc = "put"
    /\ queue' = Append(queue, Resolved(handlers[h].path))
    /\ unfinished' = unfinished + 1
    /\ enqOrder' = Append(enqOrder, Resolved(handlers[h].path))
    /\ handlers' = [handlers EXCEPT ![h] = IdleHandler]
    /\ UNCHANGED <<fsVars, mainVars, processed, workers, observers, recent, envVars,
                   pipelineCalls, callbacks, procOrder, outcome>>

(* ------------------------ DaemonRunner._worker_loop -------------------- *)
Client(path) == ClientWatches[ResolveClientWatch(path)]

IdleWorker == [NoWorker EXCEPT !.pc = "loop"]

(* a loop that does not look at the stop event *)
WorkerCheckStopIgnored(g) ==
    /\ workers[g].pc = "loop"
    /\ workers' = [workers EXCEPT ![g].pc = "get"]
    /\ UNCHANGED <<fsVars, mainVars, queue, unfinished, processed, watchVars, envVars, histVars>>

(* while not self._stop_event.is_set() *)
WorkerCheckStop(g) ==
    /\ workers[g].pc = "loop"
    /\ workers' = [workers EXCEPT ![g].pc = IF stop_event THEN "exit" ELSE "get"]
    /\ UNCHANGED <<fsVars, mainVars, queue, unfinished, processed, watchVars, envVars, histVars>>

(* self._queue.get(timeout=0.5): an item, or queue.Empty and continue *)
WorkerGet(g) ==
    /\ workers[g].pc = "get"
    /\ IF queue = <<>>
       THEN /\ workers' = [workers EXCEPT ![g].pc = "loop"]
            /\ UNCHANGED <<queue, procOrder>>
       ELSE /\ workers' = [workers EXCEPT ![g].pc = "process", ![g].path = QueueGet(queue)]
            /\ queue' = QueueRest(queue)
            /\ procOrder' = Append(procOrder, QueueGet(queue))
    /\ UNCHANGED <<fsVars, mainVars, unfinished, processed, watchVars, envVars,
                   pipelineCalls, callbacks, enqOrder, outcome>>

(* _process_path up to the try: _already_processed, _resolve_client_watch, os.path.exists;
   a return here ends the attempt with task_done *)
ProcessStart(g) ==
    /\ workers[g].pc = "process"
    /\ LET path == workers[g].path
           drop == \/ AlreadyProcessed(path, processed, archive)
                   \/ ResolveClientWatch(path) = 0
                   \/ path \notin DOMAIN inbound
       IN  /\ processed' = LedgerAfterCheck(path, processed, archive)
           /\ IF drop
              THEN /\ workers' = [workers EXCEPT ![g] = IdleWorker]
                   /\ unfinished' = unfinished - 1
              ELSE /\ workers' = [workers EXCEPT ![g].pc = "read"]
                   /\ UNCHANGED unfinished
    /\ UNCHANGED <<fsVars, mainVars, queue, watchVars, envVars,
                   pipelineCalls, callbacks, enqOrder, procOrder, outcome>>

(* Path(path).read_text raises (the file is gone or cannot be read or decoded),
   or pipeline.run_pipeline is invoked *)
ReadAndInvoke(g) ==
    /\ workers[g].pc = "read"
    /\ LET path == workers[g].path
       IN  \/ /\ path \in DOMAIN inbound
              /\ workers' = [workers EXCEPT ![g].pc = "pipeline"]
              /\ pipelineCalls' = [pipelineCalls EXCEPT ![path] = @ + 1]
           \/ /\ workers' = [workers EXCEPT ![g].pc = "failed", ![g].pres = "unread"]
              /\ UNCHANGED pipelineCalls
    /\ UNCHANGED <<fsVars, mainVars, queue, unfinished, processed, watchVars, envVars,
                   callbacks, enqOrder, procOrder, outcome>>

(* pipeline.run_pipeline returns or raises *)
PipelineReturn(g) ==
    /\ workers[g].pc = "pipeline"
    /\ \/ workers' = [workers EXCEPT ![g].pc = "archive", ![g].pres = "ok"]
       \/ workers' = [workers EXCEPT ![g].pc = "failed", ![g].pres = "raised"]
    /\ UNCHANGED <<fsVars, mainVars, queue, unfinished, processed, watchVars, envVars, histVars>>

(* a copy instead of a move: the source file stays *)
MovedAwayCopied(files, path) == files

(* src.replace(destination): the source directory without the moved file *)
MovedAway(files, path) == Remove(files, path)

(* _archive_file: the move into the client's archive directory, or an OSError
   (os.makedirs or Path.replace fails; FileNotFoundError when the file is gone) *)
Archive(g) ==
    /\ workers[g].pc = "archive"
    /\ LET path == workers[g].path
           a == Client(path).archive
           dest == Destination(archive[a], path.name, now)
       IN  \/ /\ path \in DOMAIN inbound
              /\ archive' = [archive EXCEPT ![a] = Put(@, dest, inbound[path].content)]
              /\ inbound' = MovedAway(inbound, path)
              /\ outcome' = [outcome EXCEPT ![path] = @ \cup {"archived"}]
              /\ workers' = [workers EXCEPT ![g].pc = "mark", ![g].moved = inbound[path].content,
                                            ![g].dest = dest]
           \/ /\ workers' = [workers EXCEPT ![g].pc = "failed"]
              /\ UNCHANGED <<inbound, archive, outcome>>
    /\ UNCHANGED <<now, os_name, failures, mainVars, queue, unfinished, processed, watchVars, envVars,
                   pipelineCalls, callbacks, enqOrder, procOrder>>

(* self._mark_processed(path) after the archive move; the attempt ends with task_done *)
MarkArchived(g) ==
    /\ workers[g].pc = "mark"
    /\ processed' = processed \cup {workers[g].path}
    /\ unfinished' = unfinished - 1
    /\ workers' = [workers EXCEPT ![g] = IdleWorker]
    /\ UNCHANGED <<fsVars, mainVars, queue, watchVars, envVars,
                   pipelineCalls, callbacks, enqOrder, procOrder, outcome>>

(* except Exception: _move_to_failures. The move, or FileNotFoundError (caught:
   the destination is returned with nothing moved), or another OSError, which
   leaves _process_path and ends the worker thread after task_done *)
MoveToFailures(g) ==
    /\ workers[g].pc = "failed"
    /\ LET path == workers[g].path
           c == Client(path).client_id
           dest == Destination(failures[c], path.name, now)
       IN  \/ /\ path \in DOMAIN inbound
              /\ failures' = [failures EXCEPT ![c] = Put(@, dest, inbound[path].content)]
              /\ inbound' = MovedAway(inbound, path)
              /\ outcome' = [outcome EXCEPT ![path] = @ \cup {"quarantined"}]
              /\ workers' = [workers EXCEPT ![g].pc = "details", ![g].failure = dest,
                                            ![g].moved = inbound[path].content]
              /\ UNCHANGED unfinished
           \/ /\ path \notin DOMAIN inbound
              /\ workers' = [workers EXCEPT ![g].pc = "details", ![g].failure = dest]
              /\ UNCHANGED <<inbound, failures, outcome, unfinished>>
           \/ /\ workers' = [workers EXCEPT ![g] = [NoWorker EXCEPT !.pc = "dead"]]
              /\ unfinished' = unfinished - 1
              /\ UNCHANGED <<inbound, failures, outcome>>
    /\ UNCHANGED <<now, os_name, archive, mainVars, queue, processed, watchVars, envVars,
                   pipelineCalls, callbacks, enqOrder, procOrder>>

(* _write_failure_details and self._mark_processed(path); write_text may raise,
   which ends the worker thread after task_done *)
WriteDetails(g) ==
    /\ workers[g].pc = "details"
    /\ LET path == workers[g].path
           c == Client(path).client_id
       IN  \/ /\ failures' = [failures EXCEPT ![c] = Put(@, ErrorName(workers[g].failure), <<"error", 1>>)]
              /\ processed' = processed \cup {path}
              /\ workers' = [workers EXCEPT ![g] = IdleWorker]
           \/ /\ workers' = [workers EXCEPT ![g] = [NoWorker EXCEPT !.pc = "dead"]]
              /\ UNCHANGED <<failures, processed>>
    /\ unfinished' = unfinished - 1
    /\ UNCHANGED <<now, os_name, inbound, archive, mainVars, queue, watchVars, envVars,
                   pipelineCalls, callbacks, enqOrder, procOrder, outcome>>

(* ---------------------------- specifications --------------------------- *)
Next ==
    \/ LongTick
    \/ DropFile
    \/ Vanish
    \/ ExternalArchive
    \/ Start
    \/ StopSet
    \/ StopWatcher
    \/ JoinWorker
    \/ JoinWatcher
    \/ \E h \in HandlerIds, p \in Paths, g \in Gens : Notify(h, p, g)
    \/ \E h \in HandlerIds : Poll(h)
    \/ \E h \in HandlerIds : RecentAdd(h)
    \/ \E h \in HandlerIds : EnqueueCheck(h)
    \/ \E h \in HandlerIds : EnqueuePut(h)
    \/ \E g \in Gens : WorkerCheckStop(g)
    \/ \E g \in Gens : WorkerGet(g)
    \/ \E g \in Gens : ProcessStart(g)
    \/ \E g \in Gens : ReadAndInvoke(g)
    \/ \E g \in Gens : PipelineReturn(g)
    \/ \E g \in Gens : Archive(g)
    \/ \E g \in Gens : MarkArchived(g)
    \/ \E g \in Gens : MoveToFailures(g)
    \/ \E g \in Gens : WriteDetails(g)

(* the program: _run_daemon starts the DaemonRunner once and stops it once *)
Spec == Init /\ [][Next]_vars

(* the DaemonRunner as an object: start() and stop() in any order, start() also
   when already started; the archives start empty and nothing but the producers
   and the daemon touches the directories *)
InitApi == Init /\ archive = [a \in ArchiveDirs |-> <<>>]

NextApi ==
    \/ DropFile
    \/ Start
    \/ StartAgain
    \/ StopSet
    \/ StopWatcher
    \/ JoinWorker
    \/ JoinWatcher
    \/ \E h \in HandlerIds, p \in Paths, g \in Gens : Notify(h, p, g)
    \/ \E h \in HandlerIds : Poll(h)
    \/ \E h \in HandlerIds : RecentAdd(h)
    \/ \E h \in HandlerIds : EnqueueCheck(h)
    \/ \E h \in HandlerIds : EnqueuePut(h)
    \/ \E g \in Gens : WorkerCheckStop(g)
    \/ \E g \in Gens : WorkerGet(g)
    \/ \E g \in Gens : ProcessStart(g)
    \/ \E g \in Gens : ReadAndInvoke(g)
    \/ \E g \in Gens : PipelineReturn(g)
    \/ \E g \in Gens : Archive(g)
    \/ \E g \in Gens : MarkArchived(g)
    \/ \E g \in Gens : MoveToFailures(g)
    \/ \E g \in Gens : WriteDetails(g)

SpecApi == InitApi /\ [][NextApi]_vars

(* --------------------------- crash and restart ------------------------- *)
(* on_created / on_moved: a producer's complete file arrives in a watched
   directory and the observer hands the event to _handle_path *)
NotifyCreated(h, p, g) ==
    /\ nEnv < MaxEnv
    /\ nNotifs < MaxNotifs
    /\ handlers[h].pc = "idle"
    /\ observers[g] = "running"
    /\ p \notin DOMAIN inbound
    /\ inbound' = Put(inbound, p, [content |-> <<"file", nEnv + 1>>, size |-> 1, wstate |-> "closed",
                                 closed_at |-> now])
    /\ nEnv' = nEnv + 1
    /\ nNotifs' = nNotifs + 1
    /\ recent' = [recent EXCEPT ![g] = SeenItems(@, now)]
    /\ handlers' = [handlers EXCEPT ![h] =
          IF Seen(recent[g], p, now)
          THEN IdleHandler
          ELSE [IdleHandler EXCEPT !.pc = "wait", !.path = p, !.gen = g,
                                   !.start = now, !.next = now]]
    /\ UNCHANGED <<now, os_name, archive, failures, mainVars, daemonVars, observers, histVars>>

(* the process dies: its threads, the queue, the ledger and the recent-path
   caches are gone; the directories stay as they are *)
Crash ==
    /\ nEnv < MaxEnv
    /\ mpc = "idle"
    /\ nStarts >= 1
    /\ nStarts < MaxStarts
    /\ nEnv' = nEnv + 1
    /\ mpc' = "crashed"
    /\ stop_event' = FALSE
    /\ queue' = <<>>
    /\ unfinished' = 0
    /\ processed' = {}
    /\ workers' = [g \in Gens |-> NoWorker]
    /\ observers' = [g \in Gens |-> "none"]
    /\ recent' = [g \in Gens |-> <<>>]
    /\ handlers' = [h \in HandlerIds |-> IdleHandler]
    /\ UNCHANGED <<fsVars, nStarts, nStops, joinStart, nNotifs, histVars>>

(* the daemon is run again: a new DaemonRunner and its start() *)
Restart ==
    /\ mpc = "crashed"
    /\ mpc' = "idle"
    /\ nStarts' = nStarts + 1
    /\ observers' = [observers EXCEPT ![nStarts + 1] = "running"]
    /\ recent' = [recent EXCEPT ![nStarts + 1] = <<>>]
    /\ workers' = [workers EXCEPT ![nStarts + 1] = [NoWorker EXCEPT !.pc = "loop"]]
    /\ UNCHANGED <<fsVars, nStops, joinStart, stop_event, queue, unfinished, processed,
                   handlers, envVars, histVars>>

NextCrash ==
    \/ Start
    \/ Crash
    \/ Restart
    \/ \E h \in HandlerIds, p \in Paths, g \in Gens : NotifyCreated(h, p, g)
    \/ \E h \in HandlerIds : Poll(h)
    \/ \E h \in HandlerIds : RecentAdd(h)
    \/ \E h \in HandlerIds : EnqueueCheck(h)
    \/ \E h \in HandlerIds : EnqueuePut(h)
    \/ \E g \in Gens : WorkerCheckStop(g)
    \/ \E g \in Gens : WorkerGet(g)
    \/ \E g \in Gens : ProcessStart(g)
    \/ \E g \in Gens : ReadAndInvoke(g)
    \/ \E g \in Gens : PipelineReturn(g)
    \/ \E g \in Gens : Archive(g)
    \/ \E g \in Gens : MarkArchived(g)
    \/ \E g \in Gens : MoveToFailures(g)
    \/ \E g \in Gens : WriteDetails(g)

(* the daemon over a crash and a restart: every notification comes from a file
   that arrives while an observer runs *)
SpecCrash == InitApi /\ [][NextCrash]_vars

(* ------------------------- writers and the clock ----------------------- *)
(* a producer creates a file in an empty inbound directory and keeps writing to it *)
DropOpen == inbound = <<>> /\ DropFileAs({"open", "locked"})

(* the writer of an unfinished file closes it *)
WriterClose ==
    /\ \E p \in DOMAIN inbound :
          /\ inbound[p].wstate # "closed"
          /\ inbound' = [inbound EXCEPT ![p].wstate = "closed", ![p].closed_at = now]
    /\ UNCHANGED <<now, os_name, archive, failures, mainVars, daemonVars, watchVars, envVars, histVars>>

(* the files after their writers have written for one poll interval: the
   files of the set grow have grown *)
Written(files, grow) ==
    [p \in DOMAIN files |-> IF p \in grow THEN [files[p] EXCEPT !.size = @ + 1] ELSE files[p]]

(* time.sleep(STABLE_DELAY) of the waiting handlers: one poll interval passes,
   in which the writers of unfinished files may write; a handler whose sleep is
   over polls before more time passes *)
TickDelay ==
    /\ now < MaxTime
    /\ \E h \in HandlerIds : handlers[h].pc = "wait"
    /\ \A h \in HandlerIds : handlers[h].pc = "wait" => now < handlers[h].next
    /\ \E grow \in SUBSET {p \in DOMAIN inbound : inbound[p].wstate # "closed"} :
          inbound' = Written(inbound, grow)
    /\ now' = now + STABLE_DELAY
    /\ UNCHANGED <<os_name, archive, failures, mainVars, daemonVars, watchVars, envVars, histVars>>

(* the observer hands its events to _handle_path one after the other: one
   handler context; the events followed are those for one path *)
NextWatch ==
    \/ TickDelay
    \/ DropOpen
    \/ Vanish
    \/ WriterClose
    \/ Start
    \/ \E g \in Gens : Notify(1, PathA, g)
    \/ Poll(1)
    \/ RecentAdd(1)
    \/ EnqueueCheck(1)
    \/ EnqueuePut(1)

(* the WatchService and the writers of the files it watches, poll by poll *)
SpecWatch == InitApi /\ [][NextWatch]_vars

(* both branches of _can_open_exclusive: os.name == "nt" and the others *)
ProbeBranches == {"nt", "posix"}

InitProbe == InitOn(ProbeBranches) /\ archive = [a \in ArchiveDirs |-> <<>>]

(* the same, on a build of either branch *)
SpecProbe == InitProbe /\ [][NextWatch]_vars

(* the file a handler waits for appears while the handler sleeps, its writer
   still at work *)
Reappear ==
    /\ \E h \in HandlerIds, ws \in {"open", "locked"} :
          /\ handlers[h].pc = "wait"
          /\ now < handlers[h].next
          /\ handlers[h].path \notin DOMAIN inbound
          /\ inbound' = Put(inbound, handlers[h].path,
                            [content |-> <<"file", nEnv + 1>>, size |-> 1, wstate |-> ws, closed_at |-> now])
    /\ UNCHANGED <<now, os_name, archive, failures, mainVars, daemonVars, watchVars, envVars, histVars>>

(* the file a handler waits for is renamed away or removed while the handler sleeps *)
Disappear ==
    /\ \E h \in HandlerIds :
          /\ handlers[h].pc = "wait"
          /\ now < handlers[h].next
          /\ handlers[h].path \in DOMAIN inbound
          /\ inbound' = Remove(inbound, handlers[h].path)
    /\ UNCHANGED <<now, os_name, archive, failures, mainVars, daemonVars, watchVars, envVars, histVars>>

NextWait ==
    \/ TickDelay
    \/ Reappear
    \/ Disappear
    \/ Start
    \/ \E g \in Gens : Notify(1, PathA, g)
    \/ Poll(1)
    \/ RecentAdd(1)
    \/ EnqueueCheck(1)
    \/ EnqueuePut(1)

(* one wait after the other for a file that comes and goes as often as it
   likes and grows while it is there *)
SpecWait == InitApi /\ [][NextWait]_vars

(* self._observer = Observer(): the one thread of a WatchService that takes the
   events of all its scheduled directories and calls the handler's on_created
   and on_moved, and with them _handle_path, one event after the other *)
ObserverThread == 1

(* before any wait has slept, a producer puts a file into an inbound directory:
   into the first a file that it holds locked and goes on writing, into the
   other a complete file *)
DropAny ==
    /\ now = 0
    /\ nEnv < MaxEnv
    /\ \E p \in Paths \ DOMAIN inbound :
          inbound' = Put(inbound, p, [content |-> <<"file", nEnv + 1>>, size |-> 1,
                                      wstate |-> IF p = PathA THEN "locked" ELSE "closed",
                                      closed_at |-> now])
    /\ nEnv' = nEnv + 1
    /\ UNCHANGED <<now, os_name, archive, failures, mainVars, daemonVars, watchVars, nNotifs, histVars>>

(* the WatchService as it is constructed: the events of both directories are
   handled in the observer's thread *)
NextObserver ==
    \/ TickDelay
    \/ DropAny
    \/ Start
    \/ \E p \in Paths, g \in Gens : Notify(ObserverThread, p, g)
    \/ Poll(ObserverThread)
    \/ RecentAdd(ObserverThread)
    \/ EnqueueCheck(ObserverThread)
    \/ EnqueuePut(ObserverThread)

SpecObserver == InitApi /\ [][NextObserver]_vars

(* the WatchService with a callback that may raise, its handlers running
   concurrently, started and stopped by its owner *)
NextService ==
    \/ DropFile
    \/ Start
    \/ StopSet
    \/ StopWatcher
    \/ JoinWorker
    \/ JoinWatcher
    \/ \E h \in HandlerIds, p \in Paths, g \in Gens : Notify(h, p, g)
    \/ \E h \in HandlerIds : Poll(h)
    \/ \E h \in HandlerIds : RecentAdd(h)
    \/ \E h \in HandlerIds : EnqueueCheck(h)
    \/ \E h \in HandlerIds : CallbackRaises(h)
    \/ \E h \in HandlerIds : EnqueuePut(h)
    \/ \E g \in Gens : WorkerCheckStop(g)

SpecService == InitApi /\ [][NextService]_vars

(* the same over a time longer than the cache's time to live *)
NextReadmit ==
    \/ LongTick
    \/ DropFile
    \/ Start
    \/ StopSet
    \/ StopWatcher
    \/ JoinWorker
    \/ JoinWatcher
    \/ \E h \in HandlerIds, p \in Paths, g \in Gens : Notify(h, p, g)
    \/ \E h \in HandlerIds : Poll(h)
    \/ \E h \in HandlerIds : RecentAdd(h)
    \/ \E h \in HandlerIds : EnqueueCheck(h)
    \/ \E h \in HandlerIds : CallbackRaises(h)
    \/ \E h \in HandlerIds : EnqueuePut(h)
    \/ \E g \in Gens : WorkerCheckStop(g)

SpecReadmit == InitApi /\ [][NextReadmit]_vars

(* a file that is not a batch appears in a watched directory *)
DropRejected ==
    /\ nEnv < MaxEnv
    /\ \E p \in RejectedPaths \ DOMAIN inbound :
          inbound' = Put(inbound, p, [content |-> <<"file", nEnv + 1>>, size |-> 1, wstate |-> "closed",
                                      closed_at |-> now])
    /\ nEnv' = nEnv + 1
    /\ UNCHANGED <<now, os_name, archive, failures, mainVars, daemonVars, watchVars, nNotifs, histVars>>

(* the WatchService notified of batches and of files that are not batches *)
NextFilter ==
    \/ DropFile
    \/ DropRejected
    \/ Start
    \/ \E h \in HandlerIds, p \in Paths \cup RejectedPaths, g \in Gens : Notify(h, p, g)
    \/ \E h \in HandlerIds : Poll(h)
    \/ \E h \in HandlerIds : RecentAdd(h)
    \/ \E h \in HandlerIds : EnqueueCheck(h)
    \/ \E h \in HandlerIds : EnqueuePut(h)

SpecFilter == InitApi /\ [][NextFilter]_vars

(* a complete file appears at a path under no configured in_txt directory *)
DropOther ==
    /\ nEnv < MaxEnv
    /\ \E p \in OtherPaths \ DOMAIN inbound :
          inbound' = Put(inbound, p, [content |-> <<"file", nEnv + 1>>, size |-> 1, wstate |-> "closed",
                                      closed_at |-> now])
    /\ nEnv' = nEnv + 1
    /\ UNCHANGED <<now, os_name, archive, failures, mainVars, daemonVars, watchVars, nNotifs, histVars>>

(* the daemon handed paths of its clients and paths of no client *)
NextRoute ==
    \/ DropFile
    \/ DropOther
    \/ Start
    \/ \E h \in HandlerIds, p \in AllPaths, g \in Gens : Notify(h, p, g)
    \/ \E h \in HandlerIds : Poll(h)
    \/ \E h \in HandlerIds : RecentAdd(h)
    \/ \E h \in HandlerIds : EnqueueCheck(h)
    \/ \E h \in HandlerIds : EnqueuePut(h)
    \/ \E g \in Gens : WorkerCheckStop(g)
    \/ \E g \in Gens : WorkerGet(g)
    \/ \E g \in Gens : ProcessStart(g)
    \/ \E g \in Gens : ReadAndInvoke(g)
    \/ \E g \in Gens : PipelineReturn(g)
    \/ \E g \in Gens : Archive(g)
    \/ \E g \in Gens : MarkArchived(g)
    \/ \E g \in Gens : MoveToFailures(g)
    \/ \E g \in Gens : WriteDetails(g)

SpecRoute == InitApi /\ [][NextRoute]_vars

(* a complete file appears in a sub-folder of an in_txt directory *)
DropSub ==
    /\ nEnv < MaxEnv
    /\ \E p \in SubPaths \ DOMAIN inbound :
          inbound' = Put(inbound, p, [content |-> <<"file", nEnv + 1>>, size |-> 1, wstate |-> "closed",
                                      closed_at |-> now])
    /\ nEnv' = nEnv + 1
    /\ UNCHANGED <<now, os_name, archive, failures, mainVars, daemonVars, watchVars, nNotifs, histVars>>

(* the daemon watching recursively: files with one name arrive in an in_txt
   directory and in its sub-folder, and other tools write into the archive *)
NextReuse ==
    \/ DropFile
    \/ DropSub
    \/ ExternalArchive
    \/ Start
    \/ \E h \in HandlerIds, p \in Paths \cup SubPaths, g \in Gens : Notify(h, p, g)
    \/ \E h \in HandlerIds : Poll(h)
    \/ \E h \in HandlerIds : RecentAdd(h)
    \/ \E h \in HandlerIds : EnqueueCheck(h)
    \/ \E h \in HandlerIds : EnqueuePut(h)
    \/ \E g \in Gens : WorkerCheckStop(g)
    \/ \E g \in Gens : WorkerGet(g)
    \/ \E g \in Gens : ProcessStart(g)
    \/ \E g \in Gens : ReadAndInvoke(g)
    \/ \E g \in Gens : PipelineReturn(g)
    \/ \E g \in Gens : Archive(g)
    \/ \E g \in Gens : MarkArchived(g)
    \/ \E g \in Gens : MoveToFailures(g)
    \/ \E g \in Gens : WriteDetails(g)

SpecReuse == Init /\ [][NextReuse]_vars

(* ------------------------- _RecentPaths, on its own -------------------- *)
(* A _RecentPaths(max_entries = MaxEntries) used by concurrent callers; its
   items are recent[1], a caller's position, path and clock reading are in a
   handler record, which keeps as history (obs) the items its add found. *)
(* seen(path) or add(path) is entered: now = time.monotonic(), before the lock *)
CacheCall(h, k, op) ==
    /\ handlers[h].pc = "idle"
    /\ handlers' = [handlers EXCEPT ![h] = [IdleHandler EXCEPT !.pc = op, !.path = k, !.start = now]]
    /\ UNCHANGED <<fsVars, mainVars, daemonVars, observers, recent, envVars, histVars>>

(* seen: with self._lock: self._prune(now); return path in self._items *)
CacheSeen(h) ==
    /\ handlers[h].pc = "seen_call"
    /\ recent' = [recent EXCEPT ![1] = Prune(@, handlers[h].start, RECENT_TTL_SECONDS, MaxEntries)]
    /\ handlers' = [handlers EXCEPT ![h] = IdleHandler]
    /\ UNCHANGED <<fsVars, mainVars, daemonVars, observers, envVars, histVars>>

(* add: with self._lock: set, move_to_end, self._prune(now) *)
CacheAdd(h) ==
    /\ handlers[h].pc = "add_call"
    /\ recent' = [recent EXCEPT ![1] =
          CacheAddItems(@, handlers[h].path, handlers[h].start, RECENT_TTL_SECONDS, MaxEntries)]
    /\ handlers' = [handlers EXCEPT ![h].pc = "added", ![h].obs = recent[1]]
    /\ UNCHANGED <<fsVars, mainVars, daemonVars, observers, envVars, histVars>>

(* add returns *)
CacheReturn(h) ==
    /\ handlers[h].pc = "added"
    /\ handlers' = [handlers EXCEPT ![h] = IdleHandler]
    /\ UNCHANGED <<fsVars, mainVars, daemonVars, observers, recent, envVars, histVars>>

NextCache ==
    \/ LongTick
    \/ \E h \in HandlerIds, k \in CacheKeys, op \in {"seen_call", "add_call"} : CacheCall(h, k, op)
    \/ \E h \in HandlerIds : CacheSeen(h)
    \/ \E h \in HandlerIds : CacheAdd(h)
    \/ \E h \in HandlerIds : CacheReturn(h)

SpecCache == InitApi /\ [][NextCache]_vars

(* ------------------------------- shutdown ------------------------------ *)
(* somebody is blocked with a timeout that has not run out: a handler in
   _wait_for_stable, or stop() in its join of the worker *)
TimerPending ==
    \/ \E h \in HandlerIds : handlers[h].pc = "wait" /\ now - handlers[h].start < STABLE_TIMEOUT
    \/ mpc = "join_worker" /\ now - joinStart < JOIN_TIMEOUT

(* the time of such a timeout passes *)
TimeoutTick ==
    /\ TimerPending
    /\ \E d \in {STABLE_TIMEOUT, JOIN_TIMEOUT} : now' = now + d
    /\ UNCHANGED <<os_name, inbound, archive, failures, mainVars, daemonVars, watchVars, envVars, histVars>>

NextStop ==
    \/ TimeoutTick
    \/ DropFile
    \/ Start
    \/ StopSet
    \/ StopWatcher
    \/ JoinWorker
    \/ JoinWatcher
    \/ \E h \in HandlerIds, p \in Paths, g \in Gens : Notify(h, p, g)
    \/ \E h \in HandlerIds : Poll(h)
    \/ \E h \in HandlerIds : RecentAdd(h)
    \/ \E h \in HandlerIds : EnqueueCheck(h)
    \/ \E h \in HandlerIds : EnqueuePut(h)
    \/ \E g \in Gens : WorkerCheckStop(g)
    \/ \E g \in Gens : WorkerGet(g)
    \/ \E g \in Gens : ProcessStart(g)
    \/ \E g \in Gens : ReadAndInvoke(g)
    \/ \E g \in Gens : PipelineReturn(g)
    \/ \E g \in Gens : Archive(g)
    \/ \E g \in Gens : MarkArchived(g)
    \/ \E g \in Gens : MoveToFailures(g)
    \/ \E g \in Gens : WriteDetails(g)

(* The main thread and the handler threads keep running and time passes; the
   worker thread is promised nothing: it may stay in any call for ever *)
FairStop ==
    /\ WF_vars(TimeoutTick)
    /\ WF_vars(StopWatcher)
    /\ WF_vars(JoinWorker)
    /\ WF_vars(JoinWatcher)
    /\ \A h \in HandlerIds :
          /\ WF_vars(Poll(h))
          /\ WF_vars(RecentAdd(h))
          /\ WF_vars(EnqueueCheck(h))
          /\ WF_vars(EnqueuePut(h))

SpecStop == InitApi /\ [][NextStop]_vars /\ FairStop

(* ------------------------------ vocabulary ----------------------------- *)
(* positions of a worker inside _process_path *)
Processing == {"process", "read", "pipeline", "archive", "mark", "failed", "details"}

InQueue(p) == \E i \in DOMAIN queue : queue[i] = p

Contents(dir) == {dir[n] : n \in DOMAIN dir}

InboundContents == {inbound[p].content : p \in DOMAIN inbound}

ArchiveOf(p) == archive[Client(p).archive]

(* names under which the archive of p's client holds content c *)
ArchivedAs(arch, p, c) == {n \in DOMAIN arch[Client(p).archive] : arch[Client(p).archive][n] = c}

(* a file with p's name was in the archive of p's client before the daemon started *)
PreArchived(p) ==
    /\ ResolveClientWatch(p) # 0
    /\ p.name \in DOMAIN ArchiveOf(p)
    /\ ArchiveOf(p)[p.name][1] = "old"

Abs(x) == IF x < 0 THEN 0 - x ELSE x

(* ================================ claims =============================== *)

(* C1: the pipeline is invoked at most once for any path during the lifetime of
   the DaemonRunner, however often and in whatever interleaving the path is
   handed to _enqueue_path. *)
C1_PipelineAtMostOnce == \A p \in Paths : pipelineCalls[p] <= 1

(* the path was taken from the queue twice, its file is there again, and the
   pipeline ran for it once *)
C1_Witness ==
    \E p \in Paths :
        /\ Count(procOrder, p) = 2
        /\ pipelineCalls[p] = 1
        /\ p \in DOMAIN inbound
        /\ \A g \in Gens : workers[g].pc \notin Processing

(* C2: of the notifications for one path handled within RECENT_TTL_SECONDS of
   each other, at most one leads to the admission callback. *)
C2_CallbackOncePerTtl ==
    \A i, j \in DOMAIN callbacks :
        (i < j /\ callbacks[i].path = callbacks[j].path)
            => Abs(callbacks[j].at - callbacks[i].at) > RECENT_TTL_SECONDS

(* C3: a call of _enqueue_path that begins after the path's file was moved to
   the archive or to quarantine never reaches queue.put. *)
C3_DroppedAfterTerminal == \A h \in HandlerIds : handlers[h].pc = "put" => ~ handlers[h].term

(* C4: a path whose name was in its client's archive before the daemon started
   is never put on the queue and the pipeline is never invoked for it. *)
C4_PreArchivedNeverProcessed ==
    \A p \in Paths :
        PreArchived(p) =>
            /\ ~ InQueue(p)
            /\ pipelineCalls[p] = 0
            /\ \A h \in HandlerIds : ~ (handlers[h].pc = "put" /\ Resolved(handlers[h].path) = p)
            /\ \A g \in Gens : ~ (workers[g].pc \in Processing /\ workers[g].path = p)

(* _enqueue_path was called for such a path whose file is in the inbound
   directory, with nothing else in the ledger, and dropped it *)
C4_Witness ==
    \E p \in Paths :
        /\ PreArchived(p)
        /\ p \in DOMAIN inbound
        /\ \E i \in DOMAIN callbacks : callbacks[i].path = p
        /\ processed = {p}
        /\ \A h \in HandlerIds : handlers[h].pc = "idle"

(* C5: a path that is in the ledger is not put on the queue again. *)
C5_NoPutOnceInLedger ==
    [][Len(enqOrder') > Len(enqOrder)
          => ~ ( /\ enqOrder'[Len(enqOrder')] \in processed
                 /\ Count(enqOrder, enqOrder'[Len(enqOrder')]) >= 1 )]_vars

(* C6, as stated: once the worker is through with a path it took from the
   queue, the path's file is in exactly one of archive and quarantine. *)
C6_ExactlyOneOutcome ==
    \A p \in Paths :
        ( /\ \E i \in DOMAIN procOrder : procOrder[i] = p
          /\ ~ InQueue(p)
          /\ \A g \in Gens : ~ (workers[g].pc \in Processing /\ workers[g].path = p) )
        => Cardinality(outcome[p]) = 1

(* C6, amended: a path reaches at most one terminal outcome, and no file is in
   an archive and in a quarantine directory at once. *)
C6_AtMostOneOutcome ==
    /\ \A p \in Paths : Cardinality(outcome[p]) <= 1
    /\ \A a \in ArchiveDirs, c \in ClientIds : Contents(archive[a]) \cap Contents(failures[c]) = {}

(* a path was quarantined, its file was dropped again, and a second queue entry
   for it has been worked off *)
C6_Witness ==
    \E p \in Paths :
        /\ outcome[p] = {"quarantined"}
        /\ Count(procOrder, p) = 2
        /\ p \in DOMAIN inbound
        /\ \A g \in Gens : workers[g].pc \notin Processing

(* C7: the worker takes the paths in the order of their queue.put. *)
C7_Fifo == IsPrefix(procOrder, enqOrder)

(* two different paths were put in the order opposite to their callbacks, and
   taken in the order of the puts *)
C7_Witness ==
    /\ Len(procOrder) = 2
    /\ procOrder = enqOrder
    /\ procOrder[1] # procOrder[2]
    /\ Len(callbacks) = 2
    /\ callbacks[1].path = enqOrder[2]
    /\ callbacks[2].path = enqOrder[1]

(* C8: at most one processing attempt is in progress. *)
C8_OneAttemptAtATime == Cardinality({g \in Gens : workers[g].pc \in Processing}) <= 1

(* what C9 promises of an attempt of worker g that ends in this step *)
C9_Post(g) ==
    /\ workers[g].moved \notin {inbound'[p].content : p \in DOMAIN inbound'}
    /\ Cardinality(ArchivedAs(archive', workers[g].path, workers[g].moved)) = 1
    /\ ArchivedAs(archive', workers[g].path, workers[g].moved)
          \subseteq {workers[g].path.name, workers[g].dest}
    /\ \/ workers[g].dest = workers[g].path.name
       \/ /\ IsPrefix(Stem(workers[g].path.name) \o <<"_">>, workers[g].dest)
          /\ EndsWith(workers[g].dest, Suffix(workers[g].path.name))
    /\ workers[g].path \in processed'

(* C9, as stated: an attempt whose pipeline call succeeded and that returns to
   the worker loop ends with the file out of the inbound directory, in the
   archive once, and the path in the ledger. *)
C9_SuccessArchives ==
    [][\A g \in Gens :
          (workers[g].pc \in Processing /\ workers[g].pres = "ok" /\ workers'[g].pc = "loop")
              => C9_Post(g)]_vars

(* C9, amended: so ends an attempt whose pipeline call succeeded and whose move
   into the archive did not raise. *)
C9_ArchivedAttempt ==
    [][\A g \in Gens : (workers[g].pc = "mark" /\ workers'[g].pc # "mark") => C9_Post(g)]_vars

(* an attempt ended with the file archived under a time-stamped name *)
C9_Witness ==
    \E p \in Paths :
        /\ p \in processed
        /\ outcome[p] = {"archived"}
        /\ pipelineCalls[p] = 1
        /\ \E n \in DOMAIN ArchiveOf(p) : n = StampedName(p.name, now) /\ ArchiveOf(p)[n][1] = "file"
        /\ \A g \in Gens : workers[g].pc \notin Processing

(* C10: every file of an archive directory stays there with its content. *)
C10_NeverOverwrites ==
    [][\A a \in ArchiveDirs : \A n \in DOMAIN archive[a] :
          n \in DOMAIN archive'[a] /\ archive'[a][n] = archive[a][n]]_vars

(* what C11 promises of a failed attempt of worker g that ends in this step *)
C11_Post(g) ==
    LET path == workers[g].path
        fdir == failures'[Client(path).client_id]
    IN  /\ workers[g].moved # NoContent
        /\ workers[g].moved \notin {inbound'[p].content : p \in DOMAIN inbound'}
        /\ \E n \in DOMAIN fdir :
              /\ fdir[n] = workers[g].moved
              /\ \/ n = path.name
                 \/ /\ IsPrefix(Stem(path.name) \o <<"_">>, n)
                    /\ EndsWith(n, Suffix(path.name))
              /\ ErrorName(n) \in DOMAIN fdir
              /\ fdir[ErrorName(n)][1] = "error"
        /\ path \in processed'

(* C11: an attempt in which reading the file or the pipeline call raised ends
   with the file out of the inbound directory and in the client's quarantine
   directory, an .error.txt file with failure detail next to it, and the path
   in the ledger. *)
C11_FailureQuarantines ==
    [][\A g \in Gens :
          ( /\ workers[g].pc \in {"failed", "details"}
            /\ workers[g].pres \in {"unread", "raised"}
            /\ workers'[g].pc \notin Processing )
              => C11_Post(g)]_vars

(* C12: a worker thread ends only after stop() has set the stop event. *)
C12_WorkerSurvivesFailures ==
    \A g \in Gens : workers[g].pc \in {"exit", "dead"} => stop_event

(* the daemon has nothing left to do: no handler is at work, the queue is
   empty and the worker of the current start() waits for an item *)
Quiescent ==
    /\ mpc = "idle"
    /\ nStarts >= 1
    /\ observers[nStarts] = "running"
    /\ \A h \in HandlerIds : handlers[h].pc = "idle"
    /\ queue = <<>>
    /\ workers[nStarts].pc \in {"loop", "get"}

(* C13: once the daemon restarted after a crash has nothing left to do, no
   admissible file that is not in the archive is left in an inbound directory. *)
C13_NoWorkLostByCrash ==
    (Quiescent /\ nStarts >= 2)
        => \A p \in DOMAIN inbound :
              ~ ( /\ IsValidTxt(p)
                  /\ inbound[p].wstate = "closed"
                  /\ ~ ArchivePathExists(p, archive) )

(* C14: _wait_for_stable returns true only on a poll at which the exclusive
   open succeeds, or at which the file has for STABLE_CHECKS polls in a row
   (of those that found the file) had the size of the poll before; it returns
   false only when STABLE_TIMEOUT has elapsed. *)
C14_StableOnlyIfSettled ==
    [][\A h \in HandlerIds :
          (handlers[h].pc = "wait" /\ handlers'[h].pc # "wait" /\ mpc' = mpc) =>
              IF handlers'[h].pc = "add"
              THEN /\ handlers[h].path \in DOMAIN inbound
                   /\ \/ CanOpenExclusive(os_name, inbound[handlers[h].path])
                      \/ /\ Len(handlers[h].obs) = STABLE_CHECKS
                         /\ \A i \in DOMAIN handlers[h].obs :
                               handlers[h].obs[i] = inbound[handlers[h].path].size
              ELSE now - handlers[h].start >= STABLE_TIMEOUT]_vars

(* the wait for a file that its writer still holds locked has returned true,
   after the wait saw its size change *)
C14_Witness ==
    \E h \in HandlerIds :
        /\ handlers[h].pc = "add"
        /\ handlers[h].path \in DOMAIN inbound
        /\ inbound[handlers[h].path].wstate = "locked"
        /\ inbound[handlers[h].path].size > 1
        /\ now - handlers[h].start > STABLE_CHECKS * STABLE_DELAY

(* the wait of handler h ends in this step with the result false *)
ReturnsFalse(h) == handlers[h].pc = "wait" /\ handlers'[h].pc = "idle" /\ mpc' = mpc

(* the file the wait of handler h is about is there, was closed by its writer,
   and that less than d after the wait began *)
ClosedWithin(h, d) ==
    /\ handlers[h].path \in DOMAIN inbound
    /\ inbound[handlers[h].path].wstate = "closed"
    /\ inbound[handlers[h].path].closed_at - handlers[h].start < d

(* C15, as stated: when the writer closes the file less than STABLE_TIMEOUT
   after the wait began, the wait does not return false. *)
C15_TrueIfClosedBeforeTimeout ==
    [][\A h \in HandlerIds : ReturnsFalse(h) => ~ ClosedWithin(h, STABLE_TIMEOUT)]_vars

(* C15, amended: so it is when the writer closes the file more than one poll
   interval before the timeout. *)
C15_TrueIfClosedBeforeLastPoll ==
    [][\A h \in HandlerIds : ReturnsFalse(h) => ~ ClosedWithin(h, STABLE_TIMEOUT - STABLE_DELAY)]_vars

(* the wait has returned true, before the timeout, for a file whose writer held
   it locked and changed its size in every poll interval for five seconds and
   then closed it *)
C15_Witness ==
    \E h \in HandlerIds :
        /\ handlers[h].pc = "add"
        /\ handlers[h].path \in DOMAIN inbound
        /\ inbound[handlers[h].path].wstate = "closed"
        /\ inbound[handlers[h].path].closed_at - handlers[h].start >= 5 * TicksPerSecond
        /\ inbound[handlers[h].path].size > (inbound[handlers[h].path].closed_at - handlers[h].start) \div STABLE_DELAY
        /\ now - handlers[h].start < STABLE_TIMEOUT

(* every path in a recent-path cache was found stable by a wait: its callback
   has been invoked or its handler is about to invoke it *)
CacheOnlyAdmitted ==
    \A g \in Gens : \A i \in DOMAIN recent[g] :
        \/ \E j \in DOMAIN callbacks : callbacks[j].path = recent[g][i].path
        \/ \E h \in HandlerIds : handlers[h].pc = "callback" /\ handlers[h].path = recent[g][i].path

(* C16: a wait that returns false ends the handling of its notification with
   no callback and nothing added to the recent-path cache, the ledger or the
   queue; so a path is in the cache, where it would suppress a later
   notification, only after a wait that returned true. *)
C16_TimeoutLeavesNoTrace ==
    [][ /\ \A h \in HandlerIds :
              ReturnsFalse(h) => /\ UNCHANGED <<callbacks, recent, processed, queue, enqOrder>>
                                 /\ handlers'[h] = IdleHandler
        /\ CacheOnlyAdmitted' ]_vars

(* after a wait for the path ran into the timeout, a second notification for
   it is in its own wait and has polled the file *)
C16_Witness ==
    /\ nNotifs = 2
    /\ callbacks = <<>>
    /\ handlers[1].pc = "wait"
    /\ handlers[1].start >= STABLE_TIMEOUT
    /\ handlers[1].obs # <<>>
    /\ \A g \in Gens : recent[g] = <<>>
    /\ processed = {}
    /\ queue = <<>>

(* C17: after a callback has raised, the observer that delivered the
   notification still runs, until stop() stops it. *)
C17_CallbackErrorContained ==
    (\E i \in DOMAIN callbacks : ~ callbacks[i].ok)
        => (nStops = 0 => observers[nStarts] = "running")

(* the callback raised for one path, and afterwards a notification for another
   path was handled and its callback invoked *)
C17_Witness ==
    /\ Len(callbacks) = 2
    /\ ~ callbacks[1].ok
    /\ callbacks[2].ok
    /\ callbacks[2].path # callbacks[1].path
    /\ \A h \in HandlerIds : handlers[h].pc = "idle"
    /\ Len(queue) = 1

(* C18: a notification for a file name that is not a batch leaves nothing
   behind: no handler is at work on it, and it is in no recent-path cache, not
   in the callback history, not in the queue and not in the ledger. *)
C18_RejectedLeaveNoTrace ==
    /\ \A h \in HandlerIds : handlers[h].pc # "idle" => handlers[h].path \notin RejectedPaths
    /\ \A g \in Gens : \A i \in DOMAIN recent[g] : recent[g][i].path \notin RejectedPaths
    /\ \A i \in DOMAIN callbacks : callbacks[i].path \notin RejectedPaths
    /\ \A i \in DOMAIN queue : queue[i] \notin RejectedPaths
    /\ processed \cap RejectedPaths = {}

(* two notifications have been handled where only files that are not batches
   lie in the watched directories, and nothing has changed *)
C18_Witness ==
    /\ nNotifs = 2
    /\ DOMAIN inbound # {}
    /\ DOMAIN inbound \subseteq RejectedPaths
    /\ observers[1] = "running"
    /\ \A h \in HandlerIds : handlers[h] = IdleHandler
    /\ \A g \in Gens : recent[g] = <<>>
    /\ callbacks = <<>>
    /\ queue = <<>>
    /\ processed = {}

(* s is what is left of t when entries are taken away from its front *)
IsSuffix(s, t) == Len(s) <= Len(t) /\ SubSeq(t, Len(t) - Len(s) + 1, Len(t)) = s

(* the entries of a cache in the order in which they were added, without the
   path k and without those expired at the clock reading t, followed by k *)
AddedLast(items, k, t) ==
    SelectSeq(items, LAMBDA e : e.path # k /\ t - e.ts <= RECENT_TTL_SECONDS)
        \o <<[path |-> k, ts |-> t]>>

(* C19: the cache never holds more than max_entries entries; an add leaves the
   added path as the newest entry, and what it takes away beyond the expired
   entries it takes from the least recently added end. *)
C19_CacheBounded ==
    [][ /\ Len(recent'[1]) <= MaxEntries
        /\ \A h \in HandlerIds :
              (handlers[h].pc = "add_call" /\ handlers'[h].pc = "added") =>
                  /\ recent'[1] # <<>>
                  /\ recent'[1][Len(recent'[1])] = [path |-> handlers[h].path, ts |-> handlers[h].start]
                  /\ IsSuffix(recent'[1], AddedLast(recent[1], handlers[h].path, handlers[h].start))
                  /\ Count([i \in DOMAIN recent'[1] |-> recent'[1][i].path], handlers[h].path) = 1 ]_vars

(* an add of a new path has found the cache full of entries that have not
   expired, and has left the newer of them and the new path *)
C19_Witness ==
    \E h \in HandlerIds :
        /\ handlers[h].pc = "added"
        /\ Len(handlers[h].obs) = MaxEntries
        /\ \A i \in DOMAIN handlers[h].obs :
              /\ handlers[h].obs[i].path # handlers[h].path
              /\ handlers[h].start - handlers[h].obs[i].ts <= RECENT_TTL_SECONDS
        /\ recent[1] = Tail(handlers[h].obs) \o <<[path |-> handlers[h].path, ts |-> handlers[h].start]>>

(* C20: a call of stop() returns. *)
C20_StopReturns == (mpc # "idle") ~> (mpc = "idle")

(* stop() has returned, after the timeout of its join, while the worker is
   still inside the pipeline call *)
C20_Witness ==
    /\ nStops = 1
    /\ mpc = "idle"
    /\ workers[nStarts].pc = "pipeline"
    /\ now - joinStart >= JOIN_TIMEOUT
    /\ observers[nStarts] = "stopped"

(* C21: a wait returns true through the exclusive-open probe only for a file
   that no writer still has open: a file still being appended to is never
   declared stable by the probe, on either platform branch. *)
C21_ProbeMeansWriterDone ==
    [][\A h \in HandlerIds :
          ( /\ handlers[h].pc = "wait"
            /\ handlers'[h].pc = "add"
            /\ handlers[h].path \in DOMAIN inbound
            /\ CanOpenExclusive(os_name, inbound[handlers[h].path]) )
              => inbound[handlers[h].path].wstate = "closed"]_vars

(* the polls a wait can make before STABLE_TIMEOUT has elapsed *)
MaxPolls == (STABLE_TIMEOUT + STABLE_DELAY - 1) \div STABLE_DELAY

(* the polls the wait of handler record hr has made and slept after *)
PollsMade(hr) == (hr.next - hr.start) \div STABLE_DELAY

(* C22: _wait_for_stable returns after at most MaxPolls polls that went to
   sleep, whatever the file does: the poll after them returns; a poll that
   finds the file missing before the timeout does not end the wait. *)
C22_WaitTerminates ==
    [][\A h \in HandlerIds :
          /\ handlers'[h].pc = "wait" => PollsMade(handlers'[h]) <= MaxPolls
          /\ (handlers[h].pc = "wait" /\ handlers'[h] # handlers[h] /\ mpc' = mpc) =>
                /\ PollsMade(handlers[h]) = MaxPolls => handlers'[h].pc # "wait"
                /\ ( /\ handlers[h].path \notin DOMAIN inbound
                     /\ now - handlers[h].start < STABLE_TIMEOUT ) => handlers'[h].pc = "wait"]_vars

(* a wait has returned false at the timeout for a file whose writer held it
   locked and changed its size in every poll interval, and nothing was admitted *)
C22_Witness ==
    /\ nNotifs = 1
    /\ handlers[1] = IdleHandler
    /\ callbacks = <<>>
    /\ now = STABLE_TIMEOUT
    /\ PathA \in DOMAIN inbound
    /\ inbound[PathA].wstate = "locked"
    /\ inbound[PathA].size >= MaxPolls

(* C23, as stated: no worker takes a path from the queue, to begin an attempt
   for it, once stop() has set the stop event. *)
C23_NoAttemptAfterStop == [][Len(procOrder') > Len(procOrder) => ~ stop_event]_vars

(* C23, amended: stop() leaves the workers where they are, so an attempt in
   flight goes on; once the stop event is set, a worker that tests it exits
   and no worker enters queue.get, so a worker begins at most the one attempt
   whose queue.get it had entered before the signal. *)
C23_ExitsAtNextTest ==
    [][\A g \in Gens :
          /\ mpc' # mpc => workers'[g] = workers[g]
          /\ (stop_event /\ workers[g].pc = "loop" /\ workers'[g] # workers[g])
                => workers'[g].pc = "exit"
          /\ (stop_event /\ workers'[g].pc = "get") => workers[g].pc = "get"]_vars

(* stop() has set the event and not yet gone on; the worker has archived one
   file, has then tested the event and exited, and a path is left in the queue *)
C23_Witness ==
    /\ mpc = "stop_watcher"
    /\ stop_event
    /\ workers[1].pc = "exit"
    /\ queue # <<>>
    /\ \E p \in Paths : outcome[p] = {"archived"} /\ p \in processed /\ ~ InQueue(p)

(* C24: a path taken from the queue that lies under no client's in_txt
   directory is dropped with no effect: the attempt ends at once, the pipeline
   is not invoked for it, no directory changes, and the path does not enter
   the ledger, neither in _process_path nor in _enqueue_path. *)
C24_UnroutedDropped ==
    [][ /\ \A g \in Gens :
              ( /\ workers[g].pc = "process"
                /\ ResolveClientWatch(workers[g].path) = 0
                /\ workers'[g] # workers[g] )
                  => /\ workers'[g] = IdleWorker
                     /\ UNCHANGED <<inbound, archive, failures, processed, pipelineCalls, outcome>>
        /\ \A p \in OtherPaths :
              /\ p \notin processed'
              /\ pipelineCalls'[p] = 0
              /\ outcome'[p] = {}
              /\ p \in DOMAIN inbound => (p \in DOMAIN inbound' /\ inbound'[p] = inbound[p])
              /\ \A g \in Gens : workers'[g].path = p => workers'[g].pc \in {"process", "exit"} ]_vars

(* a path of no client went through the queue and was dropped by the worker:
   its file lies where it was, and the ledger and the directories are empty *)
C24_Witness ==
    \E p \in OtherPaths :
        /\ p \in DOMAIN inbound
        /\ \E i \in DOMAIN procOrder : procOrder[i] = p
        /\ \E i \in DOMAIN callbacks : callbacks[i].path = p
        /\ \A g \in Gens : workers[g].pc \notin Processing
        /\ processed = {}
        /\ \A a \in ArchiveDirs : archive[a] = <<>>
        /\ \A c \in ClientIds : failures[c] = <<>>

(* C25: an attempt that, up to the read of the content, finds the file gone
   (and its name not in the archive) drops the path: the worker returns to its
   loop, the pipeline is not invoked, the quarantine directory and the ledger
   stay as they are. *)
C25_VanishedDropped ==
    [][\A g \in Gens :
          ( /\ workers[g].pc \in {"process", "read"}
            /\ ResolveClientWatch(workers[g].path) # 0
            /\ workers[g].path \notin DOMAIN inbound
            /\ ~ ArchivePathExists(workers[g].path, archive)
            /\ workers'[g] # workers[g] )
              => /\ workers'[g] = IdleWorker
                 /\ UNCHANGED <<failures, processed, pipelineCalls>>]_vars

(* C26: while the wait for a file that does not become stable is in progress,
   a notification for a complete file in the other watched directory can be
   handled: the handling of that notification does not have to wait for the
   end of the first file's wait. *)
C26_OtherDirectoryNotBlocked ==
    \A p, q \in Paths :
        ( /\ p.dir # q.dir
          /\ handlers[ObserverThread].pc = "wait"
          /\ handlers[ObserverThread].path = p
          /\ p \in DOMAIN inbound
          /\ inbound[p].wstate = "locked"
          /\ q \in DOMAIN inbound
          /\ inbound[q].wstate = "closed"
          /\ observers[handlers[ObserverThread].gen] = "running"
          /\ nNotifs < MaxNotifs )
            => ENABLED Notify(ObserverThread, q, handlers[ObserverThread].gen)

(* C27: a call of _already_processed for a path whose file name is in its
   client's archive directory, whatever file that is, puts the path into the
   ledger and ends the handling: _enqueue_path does not queue it,
   _process_path returns at once; the pipeline is not invoked and the inbound
   file, the archive and the quarantine directories stay as they are. *)
C27_NameInArchiveMeansDone ==
    [][ /\ \A h \in HandlerIds :
              ( /\ handlers[h].pc = "callback"
                /\ ArchivePathExists(Resolved(handlers[h].path), archive)
                /\ handlers'[h] # handlers[h] )
                  => /\ Resolved(handlers[h].path) \in processed'
                     /\ handlers'[h] = IdleHandler
                     /\ UNCHANGED <<queue, inbound, archive, failures, pipelineCalls, outcome>>
        /\ \A g \in Gens :
              ( /\ workers[g].pc = "process"
                /\ ArchivePathExists(workers[g].path, archive)
                /\ workers'[g] # workers[g] )
                  => /\ workers[g].path \in processed'
                     /\ workers'[g] = IdleWorker
                     /\ UNCHANGED <<inbound, archive, failures, pipelineCalls, outcome>> ]_vars

(* the daemon has archived x.txt of the in_txt directory; then another file
   x.txt arrived in the sub-folder: its path is in the ledger, the pipeline was
   never invoked for it and the file lies untouched in the sub-folder *)
C27_Witness ==
    /\ outcome[PathA] = {"archived"}
    /\ NameX \in DOMAIN archive["arcA"]
    /\ PathSub \in DOMAIN inbound
    /\ inbound[PathSub].content \notin Contents(archive["arcA"])
    /\ \E i \in DOMAIN callbacks : callbacks[i].path = PathSub
    /\ PathSub \in processed
    /\ pipelineCalls[PathSub] = 0
    /\ outcome[PathSub] = {}
    /\ ~ InQueue(PathSub)
    /\ \A h \in HandlerIds : handlers[h].pc = "idle"
    /\ \A g \in Gens : workers[g].pc \notin Processing

(* the recent-path cache of WatchService g holds path p *)
InRecent(g, p) == \E i \in DOMAIN recent[g] : recent[g][i].path = p

(* C28: when the callback is invoked for a path, returning or raising, the
   path is in the recent-path cache (unless the time to live has run out
   since its wait began); and no wait, and so no callback, begins for a path
   within the time to live of a notification whose callback was invoked,
   whether that callback returned or raised. *)
C28_NoReadmissionAfterCallback ==
    [][\A h \in HandlerIds :
          /\ (handlers[h].pc = "callback" /\ Len(callbacks') > Len(callbacks)
                 /\ handlers'[h] # handlers[h])
                => \/ InRecent(handlers[h].gen, handlers[h].path)
                   \/ now - handlers[h].start > RECENT_TTL_SECONDS
          /\ (handlers[h].pc = "idle" /\ handlers'[h].pc = "wait")
                => \A i \in DOMAIN callbacks :
                      callbacks[i].path = handlers'[h].path
                          => now - callbacks[i].at > RECENT_TTL_SECONDS]_vars

(* the callback raised for a path, and a second notification for the path, at
   the same clock reading, was rejected: no wait, no second callback *)
C28_Witness ==
    /\ now = 0
    /\ nNotifs = 2
    /\ Len(callbacks) = 1
    /\ ~ callbacks[1].ok
    /\ InRecent(1, callbacks[1].path)
    /\ callbacks[1].path \in DOMAIN inbound
    /\ \A h \in HandlerIds : handlers[h].pc = "idle"
    /\ queue = <<>>

(* C29: an attempt whose pipeline call succeeded and whose move into the
   archive raised ends as a failed attempt ends: the file is out of the
   inbound directory and in the client's quarantine directory with an
   .error.txt file next to it, and the path is in the ledger; and no attempt
   puts a path into the ledger while the file it handled lies in the inbound
   directory. *)
C29_ArchiveFailureQuarantines ==
    [][\A g \in Gens :
          /\ ( /\ workers[g].pc \in {"failed", "details"}
               /\ workers[g].pres = "ok"
               /\ workers'[g].pc \notin Processing )
                 => C11_Post(g)
          /\ ( /\ workers[g].pc \in Processing
               /\ workers[g].path \notin processed
               /\ workers[g].path \in processed' )
                 => workers[g].moved \notin {inbound'[p].content : p \in DOMAIN inbound'}]_vars

(* every worker thread that was started has left its loop *)
WorkersGone == nStarts >= 1 /\ \A g \in 1 .. nStarts : workers[g].pc = "exit"

(* C30: once the worker has seen the stop event and left its loop, whatever is
   in the queue or is put there afterwards is never taken: no attempt begins,
   the pipeline is not invoked, the files in the inbound directories, the
   archives and the quarantine directories stay as they are, and a queued path
   does not enter the ledger; and once stop() has returned nothing is put on
   the queue. *)
C30_LeftoversUntouched ==
    [][ /\ WorkersGone =>
              /\ workers' = workers
              /\ procOrder' = procOrder
              /\ IsPrefix(queue, queue')
              /\ UNCHANGED <<archive, failures, pipelineCalls, outcome>>
              /\ \A p \in DOMAIN inbound : p \in DOMAIN inbound' /\ inbound'[p] = inbound[p]
              /\ \A p \in Paths : InQueue(p) => (p \in processed' <=> p \in processed)
        /\ (mpc = "idle" /\ nStops >= 1) => enqOrder' = enqOrder ]_vars

(* stop() has returned and the worker has left its loop without having taken
   anything: both paths are in the queue, their files lie in the inbound
   directories, and neither is in the ledger *)
C30_Witness ==
    /\ mpc = "idle"
    /\ nStops = 1
    /\ WorkersGone
    /\ procOrder = <<>>
    /\ Len(queue) = 2
    /\ \A p \in Paths : InQueue(p) /\ p \in DOMAIN inbound /\ p \notin processed
    /\ \A h \in HandlerIds : handlers[h].pc = "idle"
====
